---- MODULE Spec2Model ----
(***************************************************************************)
(* Model of the `self-update` command of mago                              *)
(* (src/src/commands/self_update.rs): execute, perform_update,             *)
(* confirm_prompt, get_target_asset_from_release and the Homebrew guard.   *)
(*                                                                         *)
(* Strings are modelled as sequences of one-character strings, Option<T>   *)
(* as a sequence of length 0 (None) or 1 (Some), a version string as the   *)
(* tuple <<major, minor, patch, pre>> of its semantic-version fields       *)
(* (pre = 0: no pre-release part, pre = k > 0: the k-th pre-release), and  *)
(* a string that is not a semantic version as a tuple of another length.   *)
(* In the archive path template a placeholder is one token.                *)
(***************************************************************************)
EXTENDS Integers, Sequences, FiniteSets, TLC

\* ------------------------------------------------------------------ bounds
MaxVer == 1        \* largest major / minor / patch number of a version
MaxAssets == 2     \* longest asset list of a release
MaxLine == 2       \* longest line typed at the prompt (newline excluded)
MaxPaths == 2      \* longest list of candidate paths given to the guard
MaxRoots == 2      \* longest list of Homebrew roots given to the guard

\* ------------------------------------------------------- generic helpers
None == <<>>
Some(x) == <<x>>

SeqsUpTo(S, n) == UNION {[1..k -> S] : k \in 0..n}

\* str::contains
Contains(s, t) ==
    \E i \in 0..(Len(s) - Len(t)) : SubSeq(s, i + 1, i + Len(t)) = t

\* str::ends_with
EndsWith(s, t) ==
    /\ Len(s) >= Len(t)
    /\ SubSeq(s, Len(s) - Len(t) + 1, Len(s)) = t

\* str::starts_with
StartsWith(s, t) ==
    /\ Len(s) >= Len(t)
    /\ SubSeq(s, 1, Len(t)) = t

\* ---------------------------------------------------- crate::consts (l.29)
VERSION == <<0, 1, 0, 1>>
TARGET == <<"t">>
ARCHIVE_EXTENSION == <<"z">>
BIN == <<"m">>

\* ------------------------------------------------------------- versions
PreReleases == {0, 1, 2}

\* the version strings a release can carry: the semantic versions, the empty
\* string and a string that is the literal token of a placeholder
VersionStrings ==
    {<<a, b, c, p>> : a \in 0..MaxVer, b \in 0..MaxVer, c \in 0..MaxVer, p \in PreReleases}
        \cup {<<>>, <<"{{ target }}">>}

\* semver::Version::parse succeeds
Parses(v) == Len(v) = 4

\* precedence of the pre-release part: a version without one is greater
PreGreater(p, q) == (p = 0 /\ q > 0) \/ (p > 0 /\ q > 0 /\ p > q)

\* semver ordering: a > b
VersionGreater(a, b) ==
    \/ a[1] > b[1]
    \/ a[1] = b[1] /\ a[2] > b[2]
    \/ a[1] = b[1] /\ a[2] = b[2] /\ a[3] > b[3]
    \/ a[1] = b[1] /\ a[2] = b[2] /\ a[3] = b[3] /\ PreGreater(a[4], b[4])

\* bump_is_greater with >= in place of >
bump_is_greater_or_equal(current, other) ==
    IF Parses(current) /\ Parses(other)
    THEN [ok |-> TRUE, val |-> other = current \/ VersionGreater(other, current)]
    ELSE [ok |-> FALSE, val |-> FALSE]

\* self_update::version::bump_is_greater(current, other) -> Result<bool>
bump_is_greater(current, other) ==
    IF Parses(current) /\ Parses(other)
    THEN [ok |-> TRUE, val |-> VersionGreater(other, current)]
    ELSE [ok |-> FALSE, val |-> FALSE]

\* self_update::version::bump_is_compatible(current, other) -> Result<bool>
bump_is_compatible(current, other) ==
    IF Parses(current) /\ Parses(other)
    THEN [ok |-> TRUE,
          val |-> IF other[1] = 0 /\ current[1] = 0
                  THEN current[2] = other[2] /\ other[3] > current[3]
                  ELSE IF other[1] > 0
                  THEN /\ current[1] = other[1]
                       /\ \/ other[2] > current[2]
                          \/ current[2] = other[2] /\ other[3] > current[3]
                  ELSE FALSE]
    ELSE [ok |-> FALSE, val |-> FALSE]

\* --------------------------------------------------------------- releases
\* asset names: the platform's archive, the platform's name with another
\* extension, another platform's archive
AssetNames == {<<"m", "t", "z">>, <<"t", "z", "s">>, <<"o", "z">>}
AssetLists == SeqsUpTo(AssetNames, MaxAssets)

\* what the release host can answer with: Release {version, assets}
Releases == [version : VersionStrings, assets : AssetLists]

\* the predicate of the find() in get_target_asset_from_release
AssetMatches(name) == Contains(name, TARGET) /\ EndsWith(name, ARCHIVE_EXTENSION)

\* get_target_asset_from_release with the last match in place of the first
get_last_target_asset_from_release(rel) ==
    LET hits == {i \in 1..Len(rel.assets) : AssetMatches(rel.assets[i])}
    IN  IF hits = {} THEN None
        ELSE Some(CHOOSE i \in hits : \A j \in hits : i >= j)

\* get_target_asset_from_release: Some(index of the first match) or None
get_target_asset_from_release(rel) ==
    LET hits == {i \in 1..Len(rel.assets) : AssetMatches(rel.assets[i])}
    IN  IF hits = {} THEN None
        ELSE Some(CHOOSE i \in hits : \A j \in hits : i <= j)

\* ------------------------------------------------- the path in the archive
\* l.74: the template given to bin_path_in_archive
bin_path_in_archive ==
    <<"{{ bin }}", "-", "{{ version }}", "-", "{{ target }}", "/", "{{ bin }}">>

\* the text of a version string: one token for a semantic version
VersionText(v) == IF Parses(v) THEN <<ToString(v)>> ELSE v

\* str::replace: every occurrence of the token from becomes the text to
RECURSIVE StrReplace(_, _, _)
StrReplace(s, from, to) ==
    IF s = <<>> THEN <<>>
    ELSE (IF Head(s) = from THEN to ELSE <<Head(s)>>) \o StrReplace(Tail(s), from, to)

\* l.197-201: the three replace calls, one after the other
BinaryPath(version) ==
    StrReplace(
        StrReplace(
            StrReplace(bin_path_in_archive, "{{ version }}", VersionText(version)),
            "{{ target }}", TARGET),
        "{{ bin }}", BIN)

\* ------------------------------------------------------ confirmation line
LineChars == {" ", "y", "Y", "n"}

\* what read_line can return: nothing at end of input, otherwise a line
\* with its terminating newline
Lines ==
    {<<>>} \cup {Append(b, "\n") : b \in SeqsUpTo(LineChars, MaxLine)}
        \cup {<<" ", "y", " ", "\n">>}

IsWhitespace(c) == c \in {" ", "\n"}

RECURSIVE TrimStart(_)
TrimStart(s) ==
    IF s # <<>> /\ IsWhitespace(Head(s)) THEN TrimStart(Tail(s)) ELSE s

RECURSIVE TrimEnd(_)
TrimEnd(s) ==
    IF s # <<>> /\ IsWhitespace(s[Len(s)]) THEN TrimEnd(SubSeq(s, 1, Len(s) - 1)) ELSE s

\* str::trim
Trim(s) == TrimEnd(TrimStart(s))

LowerChar(c) == IF c = "Y" THEN "y" ELSE c

\* str::to_lowercase
ToLowercase(s) == [i \in 1..Len(s) |-> LowerChar(s[i])]

\* the test of confirm_prompt without to_lowercase
AcceptedCaseSensitive(line) ==
    LET s == Trim(line)
    IN  ~(s # <<>> /\ s # <<"y">>)

\* the test of confirm_prompt (l.226-227): TRUE when the answer is accepted
Accepted(line) ==
    LET s == ToLowercase(Trim(line))
    IN  ~(s # <<>> /\ s # <<"y">>)

\* ------------------------------------------------------ the Homebrew guard
\* A path is the sequence of its components; a component is the sequence of
\* the tokens of its name.  RootDir and ParentDir are the components that
\* std::path::Component does not report as Normal.
RootDir == <<"/">>
ParentDir == <<"..">>
Comp(name) == <<name>>
MagoAt8 == <<"mago", "@", "8">>

IsNormal(component) == component \notin {RootDir, ParentDir}

RECURSIVE NormalParts(_)
NormalParts(path) ==
    IF path = <<>> THEN <<>>
    ELSE IF IsNormal(Head(path)) THEN <<Head(path)>> \o NormalParts(Tail(path))
    ELSE NormalParts(Tail(path))

\* is_homebrew_cellar_path: some Normal component "Cellar" is directly
\* followed (among the Normal components) by "mago" or by "mago@..."
is_homebrew_cellar_path(path) ==
    LET components == NormalParts(path)
    IN  \E i \in 2..Len(components) :
            /\ components[i - 1] = Comp("Cellar")
            /\ \/ components[i] = Comp("mago")
               \/ StartsWith(components[i], <<"mago", "@">>)

\* Path::starts_with: whole-component prefix
PathStartsWith(path, root) == StartsWith(path, root)

\* the test without its is_empty() condition: an empty root is a prefix too
detect_homebrew_install_any_root(paths, brew_roots) ==
    \E i \in 1..Len(paths) :
        \/ is_homebrew_cellar_path(paths[i])
        \/ \E j \in 1..Len(brew_roots) : PathStartsWith(paths[i], brew_roots[j])

\* l.273-278
detect_homebrew_install(paths, brew_roots) ==
    \E i \in 1..Len(paths) :
        \/ is_homebrew_cellar_path(paths[i])
        \/ \E j \in 1..Len(brew_roots) :
               brew_roots[j] # <<>> /\ PathStartsWith(paths[i], brew_roots[j])

CellarExe ==
    <<RootDir, Comp("opt"), Comp("homebrew"), Comp("Cellar"), Comp("mago"), Comp("bin"), Comp("mago")>>
LinkExe == <<RootDir, Comp("opt"), Comp("homebrew"), Comp("bin"), Comp("mago")>>
LocalExe == <<RootDir, Comp("usr"), Comp("bin"), Comp("mago")>>
VersionedExe == <<RootDir, Comp("opt"), Comp("Cellar"), MagoAt8, Comp("bin"), Comp("mago")>>
SiblingExe == <<RootDir, Comp("opt"), <<"homebrew", "-x">>, Comp("bin"), Comp("mago")>>
DotDotExe == <<RootDir, Comp("Cellar"), ParentDir, Comp("mago"), Comp("bin"), Comp("mago")>>

GapExe == <<RootDir, Comp("Cellar"), Comp("opt"), Comp("mago"), Comp("bin"), Comp("mago")>>

\* values of env::current_exe()
ExePaths == {CellarExe, LinkExe, LocalExe, VersionedExe, SiblingExe, DotDotExe}

HomebrewRoot == <<RootDir, Comp("opt"), Comp("homebrew")>>
CellarRoot == <<RootDir, Comp("opt"), Comp("homebrew"), Comp("Cellar")>>

\* values of one HOMEBREW_* variable: unset, set to "", set to a directory
EnvValues == {None, Some(<<>>), Some(HomebrewRoot), Some(CellarRoot)}

\* l.258-268: the roots pushed for one variable, given its value and the
\* outcome of canonicalize() on it
RootsOfVar(value, canonical) ==
    IF value = None THEN <<>>
    ELSE IF value[1] = <<>> THEN <<>>
    ELSE canonical \o value

\* is_homebrew_install, as a function of what the environment answers
is_homebrew_install(exe_path, exe_canonical, env, env_canonical) ==
    IF exe_path = None THEN FALSE
    ELSE LET candidate_paths == exe_path \o exe_canonical
             homebrew_roots ==
                 RootsOfVar(env[1], env_canonical[1])
                     \o RootsOfVar(env[2], env_canonical[2])
                     \o RootsOfVar(env[3], env_canonical[3])
         IN  detect_homebrew_install(candidate_paths, homebrew_roots)

\* ------------------------------------------------------------------ state
VARIABLES
    command,        \* SelfUpdateCommand {check, no_confirm, tag}
    pc,             \* position in execute / perform_update
    release,        \* Option<Release>: the release resolved by this run
    target_asset,   \* Option<index into release.assets>
    line,           \* Option<String>: the line confirm_prompt has read (its local s)
    workspace,      \* the TempDir: [dir: "none" | "exists" | "removed", files]
    exe,            \* the file at the running executable's path
    status,         \* Option<UpdateStatus> returned by perform_update
    result,         \* Option<Result<ExitCode, Error>> returned by execute
    log,            \* the steps this run has executed, in order
    binary_path,    \* Option<String>: the path of the binary inside the archive
    test_paths,     \* the paths a direct call of detect_homebrew_install is given
    test_roots,     \* the brew_roots a direct call is given
    detected        \* Option<bool>: what the direct call returned

guard_vars == <<test_paths, test_roots, detected>>

vars ==
    <<command, pc, release, target_asset, line, workspace, exe, status, result, log,
      binary_path, guard_vars>>

Tags == {<<"v">>}

Commands == [check : BOOLEAN, no_confirm : BOOLEAN, tag : {None} \cup {Some(t) : t \in Tags}]

PriorExe == [file |-> "prior", version |-> VERSION]
NoWorkspace == [dir |-> "none", files |-> {}]
RemovedWorkspace == [dir |-> "removed", files |-> {}]

Ok(code) == Some(<<"Ok", code>>)
Err(kind) == Some(<<"Err", kind>>)

Ev(step, ok) == [step |-> step, ok |-> ok]

Init ==
    /\ command \in Commands
    /\ pc = "start"
    /\ release = None
    /\ target_asset = None
    /\ line = None
    /\ workspace = NoWorkspace
    /\ exe = PriorExe
    /\ status = None
    /\ result = None
    /\ log = <<>>
    /\ binary_path = None
    /\ test_paths = <<>>
    /\ test_roots = <<>>
    /\ detected = None

\* a return that leaks the TempDir instead of dropping it
ReturnKeepsTempDir(res, events) ==
    /\ pc' = "done"
    /\ result' = res
    /\ log' = log \o events
    /\ workspace' = workspace

\* execute returns res; a TempDir that exists is dropped (removed) on the way
Return(res, events) ==
    /\ pc' = "done"
    /\ result' = res
    /\ log' = log \o events
    /\ workspace' = IF workspace.dir = "exists" THEN RemovedWorkspace ELSE workspace

\* l.67-81: status_builder.build()?
Build ==
    /\ pc = "start"
    /\ \/ /\ pc' = "built"
          /\ log' = Append(log, Ev("build", TRUE))
          /\ UNCHANGED <<result, workspace>>
       \/ Return(Err("Config"), <<Ev("build", FALSE)>>)
    /\ UNCHANGED <<guard_vars, binary_path, command, release, target_asset, line, exe, status>>

\* the compatibility test without its warning
CompatEventsSilent(version) == <<>>

\* the log entries of the compatibility test of a greater release (l.102, l.156)
CompatEvents(version) ==
    IF bump_is_compatible(VERSION, version).val THEN <<>> ELSE <<Ev("warn", TRUE)>>

\* l.90-108: check mode, no --tag
CheckLatest ==
    /\ pc = "built"
    /\ command.check
    /\ command.tag = None
    /\ \E response \in {None} \cup {Some(r) : r \in Releases} :
          IF response = None
          THEN /\ Return(Err("Release"), <<Ev("resolve", FALSE)>>)
               /\ UNCHANGED release
          ELSE LET latest_release == response[1]
                   greater == bump_is_greater(VERSION, latest_release.version)
               IN  /\ release' = response
                   /\ IF ~greater.ok
                      THEN Return(Err("SemVer"), <<Ev("resolve", TRUE), Ev("compare", FALSE)>>)
                      ELSE IF ~greater.val
                      THEN Return(Ok("SUCCESS"), <<Ev("resolve", TRUE), Ev("compare", TRUE)>>)
                      ELSE Return(Ok("FAILURE"),
                                  <<Ev("resolve", TRUE), Ev("compare", TRUE)>>
                                      \o CompatEvents(latest_release.version))
    /\ UNCHANGED <<guard_vars, binary_path, command, target_asset, line, exe, status>>

\* the --tag arm of check mode with bump_is_greater in place of the == of l.113
CheckTagGreaterOnly ==
    /\ pc = "built"
    /\ command.check
    /\ command.tag # None
    /\ \E response \in {None} \cup {Some(r) : r \in Releases} :
          IF response = None
          THEN /\ Return(Err("Release"), <<Ev("resolve", FALSE)>>)
               /\ UNCHANGED release
          ELSE LET version_release == response[1]
                   greater == bump_is_greater(VERSION, version_release.version)
               IN  /\ release' = response
                   /\ IF ~greater.ok
                      THEN Return(Err("SemVer"), <<Ev("resolve", TRUE), Ev("compare", FALSE)>>)
                      ELSE IF ~greater.val
                      THEN Return(Ok("SUCCESS"), <<Ev("resolve", TRUE), Ev("compare", TRUE)>>)
                      ELSE Return(Ok("FAILURE"), <<Ev("resolve", TRUE), Ev("compare", TRUE)>>)
    /\ UNCHANGED <<guard_vars, binary_path, command, target_asset, line, exe, status>>

\* l.109-120: check mode, --tag
CheckTag ==
    /\ pc = "built"
    /\ command.check
    /\ command.tag # None
    /\ \E response \in {None} \cup {Some(r) : r \in Releases} :
          IF response = None
          THEN /\ Return(Err("Release"), <<Ev("resolve", FALSE)>>)
               /\ UNCHANGED release
          ELSE LET version_release == response[1]
               IN  /\ release' = response
                   /\ IF version_release.version = VERSION
                      THEN Return(Ok("SUCCESS"), <<Ev("resolve", TRUE), Ev("compare", TRUE)>>)
                      ELSE Return(Ok("FAILURE"), <<Ev("resolve", TRUE), Ev("compare", TRUE)>>)
    /\ UNCHANGED <<guard_vars, binary_path, command, target_asset, line, exe, status>>

\* the guard with the `return` of l.126 missing: it warns and goes on
GuardWarnsOnly ==
    /\ pc = "built"
    /\ ~command.check
    /\ \E exe_path \in {None} \cup {Some(p) : p \in ExePaths},
          exe_canonical \in {None} \cup {Some(p) : p \in ExePaths},
          env \in [1..3 -> EnvValues],
          env_canonical \in [1..3 -> {None, Some(HomebrewRoot)}] :
          /\ pc' = "perform_update"
          /\ log' = Append(log, Ev("guard",
                 ~is_homebrew_install(exe_path, exe_canonical, env, env_canonical)))
          /\ UNCHANGED <<result, workspace>>
    /\ UNCHANGED <<guard_vars, binary_path, command, release, target_asset, line, exe, status>>

\* the guard placed after perform_update: resolution starts without it
GuardNotFirst ==
    /\ pc = "built"
    /\ ~command.check
    /\ pc' = "perform_update"
    /\ UNCHANGED <<guard_vars, binary_path, command, release, target_asset, line, workspace, exe, status, result, log>>

\* the guard placed before the `if command.check` of l.90
GuardInEveryMode ==
    /\ pc = "built"
    /\ \E exe_path \in {None} \cup {Some(p) : p \in ExePaths},
          exe_canonical \in {None} \cup {Some(p) : p \in ExePaths},
          env \in [1..3 -> EnvValues],
          env_canonical \in [1..3 -> {None, Some(HomebrewRoot)}] :
          IF is_homebrew_install(exe_path, exe_canonical, env, env_canonical)
          THEN Return(Ok("FAILURE"), <<Ev("guard", FALSE)>>)
          ELSE /\ pc' = "perform_update"
               /\ log' = Append(log, Ev("guard", TRUE))
               /\ UNCHANGED <<result, workspace>>
    /\ UNCHANGED <<guard_vars, binary_path, command, release, target_asset, line, exe, status>>

\* l.124-127: the guard of apply mode
Guard ==
    /\ pc = "built"
    /\ ~command.check
    /\ \E exe_path \in {None} \cup {Some(p) : p \in ExePaths},
          exe_canonical \in {None} \cup {Some(p) : p \in ExePaths},
          env \in [1..3 -> EnvValues],
          env_canonical \in [1..3 -> {None, Some(HomebrewRoot)}] :
          IF is_homebrew_install(exe_path, exe_canonical, env, env_canonical)
          THEN Return(Ok("FAILURE"), <<Ev("guard", FALSE)>>)
          ELSE /\ pc' = "perform_update"
               /\ log' = Append(log, Ev("guard", TRUE))
               /\ UNCHANGED <<result, workspace>>
    /\ UNCHANGED <<guard_vars, binary_path, command, release, target_asset, line, exe, status>>

\* perform_update returned Ok(st): l.129-140 turn it into ExitCode::SUCCESS
ReturnStatus(st, events) ==
    /\ status' = Some(st)
    /\ Return(Ok("SUCCESS"), events)

\* the latest arm with an incompatible release treated as an error
ResolveLatestBlocksIncompatible ==
    /\ pc = "perform_update"
    /\ command.tag = None
    /\ \E response \in {None} \cup {Some(r) : r \in Releases} :
          IF response = None
          THEN /\ Return(Err("Release"), <<Ev("resolve", FALSE)>>)
               /\ UNCHANGED <<release, status>>
          ELSE LET latest_release == response[1]
                   greater == bump_is_greater(VERSION, latest_release.version)
               IN  /\ release' = response
                   /\ IF ~greater.ok
                      THEN /\ Return(Err("SemVer"), <<Ev("resolve", TRUE), Ev("compare", FALSE)>>)
                           /\ UNCHANGED status
                      ELSE IF ~greater.val
                      THEN ReturnStatus("UpToDate", <<Ev("resolve", TRUE), Ev("compare", TRUE)>>)
                      ELSE IF ~bump_is_compatible(VERSION, latest_release.version).val
                      THEN /\ Return(Err("Update"),
                                     <<Ev("resolve", TRUE), Ev("compare", TRUE), Ev("warn", FALSE)>>)
                           /\ UNCHANGED status
                      ELSE /\ pc' = "select"
                           /\ log' = log \o <<Ev("resolve", TRUE), Ev("compare", TRUE)>>
                           /\ UNCHANGED <<result, workspace, status>>
    /\ UNCHANGED <<guard_vars, binary_path, command, target_asset, line, exe>>

\* l.146-161: apply mode, no --tag
ResolveLatest ==
    /\ pc = "perform_update"
    /\ command.tag = None
    /\ \E response \in {None} \cup {Some(r) : r \in Releases} :
          IF response = None
          THEN /\ Return(Err("Release"), <<Ev("resolve", FALSE)>>)
               /\ UNCHANGED <<release, status>>
          ELSE LET latest_release == response[1]
                   greater == bump_is_greater(VERSION, latest_release.version)
               IN  /\ release' = response
                   /\ IF ~greater.ok
                      THEN /\ Return(Err("SemVer"), <<Ev("resolve", TRUE), Ev("compare", FALSE)>>)
                           /\ UNCHANGED status
                      ELSE IF ~greater.val
                      THEN ReturnStatus("UpToDate", <<Ev("resolve", TRUE), Ev("compare", TRUE)>>)
                      ELSE /\ pc' = "select"
                           /\ log' = log \o <<Ev("resolve", TRUE), Ev("compare", TRUE)>>
                                         \o CompatEvents(latest_release.version)
                           /\ UNCHANGED <<result, workspace, status>>
    /\ UNCHANGED <<guard_vars, binary_path, command, target_asset, line, exe>>

\* the --tag arm without the equality test of l.166
ResolveTagAlwaysInstalls ==
    /\ pc = "perform_update"
    /\ command.tag # None
    /\ \E response \in {None} \cup {Some(r) : r \in Releases} :
          IF response = None
          THEN /\ Return(Err("Release"), <<Ev("resolve", FALSE)>>)
               /\ UNCHANGED <<release, status>>
          ELSE /\ release' = response
               /\ pc' = "select"
               /\ log' = log \o <<Ev("resolve", TRUE), Ev("compare", TRUE)>>
               /\ UNCHANGED <<result, workspace, status>>
    /\ UNCHANGED <<guard_vars, binary_path, command, target_asset, line, exe>>

\* l.162-171: apply mode, --tag
ResolveTag ==
    /\ pc = "perform_update"
    /\ command.tag # None
    /\ \E response \in {None} \cup {Some(r) : r \in Releases} :
          IF response = None
          THEN /\ Return(Err("Release"), <<Ev("resolve", FALSE)>>)
               /\ UNCHANGED <<release, status>>
          ELSE LET version_release == response[1]
               IN  /\ release' = response
                   /\ IF version_release.version = VERSION
                      THEN ReturnStatus("UpToDate", <<Ev("resolve", TRUE), Ev("compare", TRUE)>>)
                      ELSE /\ pc' = "select"
                           /\ log' = log \o <<Ev("resolve", TRUE), Ev("compare", TRUE)>>
                           /\ UNCHANGED <<result, workspace, status>>
    /\ UNCHANGED <<guard_vars, binary_path, command, target_asset, line, exe>>

\* asset selection with the no_confirm test of l.180 inverted
SelectAssetInvertedTest ==
    /\ pc = "select"
    /\ LET found == get_target_asset_from_release(release[1])
       IN  IF found = None
           THEN /\ Return(Err("Release"), <<Ev("select", FALSE)>>)
                /\ UNCHANGED target_asset
           ELSE /\ target_asset' = found
                /\ pc' = IF command.no_confirm THEN "confirm" ELSE "workspace"
                /\ log' = Append(log, Ev("select", TRUE))
                /\ UNCHANGED <<result, workspace>>
    /\ UNCHANGED <<guard_vars, binary_path, command, release, line, exe, status>>

\* l.174-180: asset selection, then the no_confirm test
SelectAsset ==
    /\ pc = "select"
    /\ LET found == get_target_asset_from_release(release[1])
       IN  IF found = None
           THEN /\ Return(Err("Release"), <<Ev("select", FALSE)>>)
                /\ UNCHANGED target_asset
           ELSE /\ target_asset' = found
                /\ pc' = IF ~command.no_confirm THEN "confirm" ELSE "workspace"
                /\ log' = Append(log, Ev("select", TRUE))
                /\ UNCHANGED <<result, workspace>>
    /\ UNCHANGED <<guard_vars, binary_path, command, release, line, exe, status>>

\* l.181, l.216-225: confirm_prompt writes the prompt and reads one line
ReadAnswer ==
    /\ pc = "confirm"
    /\ \/ /\ Return(Err("Io"), <<Ev("prompt", FALSE), Ev("confirm", FALSE)>>)
          /\ UNCHANGED line
       \/ /\ Return(Err("Io"), <<Ev("prompt", TRUE), Ev("stdin", FALSE), Ev("confirm", FALSE)>>)
          /\ UNCHANGED line
       \/ \E s \in Lines :
             /\ line' = Some(s)
             /\ pc' = "answer"
             /\ log' = log \o <<Ev("prompt", TRUE), Ev("stdin", TRUE)>>
             /\ UNCHANGED <<result, workspace>>
    /\ UNCHANGED <<guard_vars, binary_path, command, release, target_asset, exe, status>>

\* a declined prompt reported as Ok(ExitCode::FAILURE), like a refusal
DecideAnswerExitsOne ==
    /\ pc = "answer"
    /\ line' = None
    /\ IF ~Accepted(line[1])
       THEN Return(Ok("FAILURE"), <<Ev("confirm", FALSE)>>)
       ELSE \/ Return(Err("Io"), <<Ev("newline", FALSE), Ev("confirm", FALSE)>>)
            \/ /\ pc' = "workspace"
               /\ log' = log \o <<Ev("newline", TRUE), Ev("confirm", TRUE)>>
               /\ UNCHANGED <<result, workspace>>
    /\ UNCHANGED <<guard_vars, binary_path, command, release, target_asset, exe, status>>

\* l.226-233: confirm_prompt tests the line, writes a newline and returns
DecideAnswer ==
    /\ pc = "answer"
    /\ line' = None
    /\ IF ~Accepted(line[1])
       THEN Return(Err("Update: User cancelled the update"), <<Ev("confirm", FALSE)>>)
       ELSE \/ Return(Err("Io"), <<Ev("newline", FALSE), Ev("confirm", FALSE)>>)
            \/ /\ pc' = "workspace"
               /\ log' = log \o <<Ev("newline", TRUE), Ev("confirm", TRUE)>>
               /\ UNCHANGED <<result, workspace>>
    /\ UNCHANGED <<guard_vars, binary_path, command, release, target_asset, exe, status>>

\* l.184-186: TempDir::new, then File::create of the archive inside it
CreateWorkspace ==
    /\ pc = "workspace"
    /\ \/ Return(Err("Io"), <<Ev("tempdir", FALSE)>>)
       \/ /\ pc' = "done"
          /\ result' = Err("Io")
          /\ workspace' = RemovedWorkspace
          /\ log' = log \o <<Ev("tempdir", TRUE), Ev("create", FALSE)>>
       \/ /\ pc' = "download"
          /\ workspace' = [dir |-> "exists", files |-> {"archive"}]
          /\ log' = log \o <<Ev("tempdir", TRUE), Ev("create", TRUE)>>
          /\ UNCHANGED result
    /\ UNCHANGED <<guard_vars, binary_path, command, release, target_asset, line, exe, status>>

\* the download with the `?` of l.193 missing: a failed download goes on
DownloadErrorIgnored ==
    /\ pc = "download"
    /\ \/ Return(Err("Config"), <<Ev("headers", FALSE)>>)
       \/ /\ pc' = "extract"
          /\ log' = log \o <<Ev("headers", TRUE), Ev("download", FALSE)>>
          /\ UNCHANGED <<result, workspace>>
       \/ /\ pc' = "extract"
          /\ log' = log \o <<Ev("headers", TRUE), Ev("download", TRUE)>>
          /\ UNCHANGED <<result, workspace>>
    /\ UNCHANGED <<guard_vars, binary_path, command, release, target_asset, line, exe, status>>

\* l.188-193: the request headers, then the download into the archive file
Download ==
    /\ pc = "download"
    /\ \/ Return(Err("Config"), <<Ev("headers", FALSE)>>)
       \/ Return(Err("Network"), <<Ev("headers", TRUE), Ev("download", FALSE)>>)
       \/ /\ pc' = "extract"
          /\ log' = log \o <<Ev("headers", TRUE), Ev("download", TRUE)>>
          /\ UNCHANGED <<result, workspace>>
    /\ UNCHANGED <<guard_vars, binary_path, command, release, target_asset, line, exe, status>>

\* the extraction with the `?` of l.204 missing: a failed one goes on
ExtractErrorIgnored ==
    /\ pc = "extract"
    /\ binary_path' = Some(BinaryPath(release[1].version))
    /\ \/ /\ pc' = "replace"
          /\ log' = Append(log, Ev("extract", FALSE))
          /\ UNCHANGED <<result, workspace>>
       \/ /\ pc' = "replace"
          /\ workspace' = [workspace EXCEPT !.files = @ \cup {"binary"}]
          /\ log' = Append(log, Ev("extract", TRUE))
          /\ UNCHANGED result
    /\ UNCHANGED <<guard_vars, command, release, target_asset, line, exe, status>>

\* l.197-204: extraction of the one binary entry
Extract ==
    /\ pc = "extract"
    /\ binary_path' = Some(BinaryPath(release[1].version))
    /\ \/ Return(Err("ArchiveNotEnabled"), <<Ev("extract", FALSE)>>)
       \/ /\ pc' = "replace"
          /\ workspace' = [workspace EXCEPT !.files = @ \cup {"binary"}]
          /\ log' = Append(log, Ev("extract", TRUE))
          /\ UNCHANGED result
    /\ UNCHANGED <<guard_vars, command, release, target_asset, line, exe, status>>

\* a replacement that is not atomic: a failed one leaves a changed file
ReplaceNotAtomic ==
    /\ pc = "replace"
    /\ \/ /\ Return(Err("Io"), <<Ev("replace", FALSE)>>)
          /\ exe' = [file |-> "extracted", version |-> release[1].version]
          /\ UNCHANGED status
       \/ /\ exe' = [file |-> "extracted", version |-> release[1].version]
          /\ ReturnStatus("Updated", <<Ev("replace", TRUE)>>)
    /\ UNCHANGED <<guard_vars, binary_path, command, release, target_asset, line>>

\* l.206-212: self_replace, and the return of Updated(release)
Replace ==
    /\ pc = "replace"
    /\ \/ /\ Return(Err("Io"), <<Ev("replace", FALSE)>>)
          /\ UNCHANGED <<exe, status>>
       \/ /\ exe' = [file |-> "extracted", version |-> release[1].version]
          /\ ReturnStatus("Updated", <<Ev("replace", TRUE)>>)
    /\ UNCHANGED <<guard_vars, binary_path, command, release, target_asset, line>>

Next ==
    \/ Build
    \/ CheckLatest
    \/ CheckTag
    \/ Guard
    \/ ResolveLatest
    \/ ResolveTag
    \/ SelectAsset
    \/ ReadAnswer
    \/ DecideAnswer
    \/ CreateWorkspace
    \/ Download
    \/ Extract
    \/ Replace

Spec == Init /\ [][Next]_vars

\* ------------------------------------------- the guard's test, called alone
\* l.297-318: detect_homebrew_install is also called directly, with any list
\* of paths and any list of roots, the empty root included
TestPaths == ExePaths \cup {GapExe}
TestRoots == {<<>>, HomebrewRoot, CellarRoot}

NonEmptySeqsUpTo(S, n) == SeqsUpTo(S, n) \ {<<>>}

InitDetect ==
    /\ command = [check |-> FALSE, no_confirm |-> FALSE, tag |-> None]
    /\ pc = "detect"
    /\ release = None
    /\ target_asset = None
    /\ line = None
    /\ workspace = NoWorkspace
    /\ exe = PriorExe
    /\ status = None
    /\ result = None
    /\ log = <<>>
    /\ binary_path = None
    /\ test_paths \in NonEmptySeqsUpTo(TestPaths, MaxPaths)
    /\ test_roots \in SeqsUpTo(TestRoots, MaxRoots)
    /\ detected = None

\* l.273-278: one call of detect_homebrew_install
Detect ==
    /\ pc = "detect"
    /\ detected' = Some(detect_homebrew_install(test_paths, test_roots))
    /\ pc' = "done"
    /\ UNCHANGED <<test_paths, test_roots, binary_path, command, release, target_asset,
                   line, workspace, exe, status, result, log>>

NextDetect == Detect

SpecDetect == InitDetect /\ [][NextDetect]_vars

\* ------------------------------------------------- reading the run's log
Did(step) == \E i \in 1..Len(log) : log[i].step = step
DidOk(step) == \E i \in 1..Len(log) : log[i] = Ev(step, TRUE)
Failed(step) == \E i \in 1..Len(log) : log[i] = Ev(step, FALSE)

\* every occurrence of step comes after a successful occurrence of earlier
After(step, earlier) ==
    \A i \in 1..Len(log) :
        log[i].step = step => \E j \in 1..(i - 1) : log[j] = Ev(earlier, TRUE)

Done == pc = "done"
Refused == Failed("guard")
ErrCancelled == Err("Update: User cancelled the update")

\* ------------------------------------------------------------------ claims

\* C1: the executable on disk is the prior one in every state reached before
\* the Replace step has succeeded; so every terminal state other than
\* Updated has the prior executable, and Updated is reported exactly when
\* the Replace step succeeded.
C1_ExecutableIntactUntilReplace ==
    /\ ~DidOk("replace") => exe = PriorExe
    /\ (Done /\ status # Some("Updated")) => exe = PriorExe
    /\ Done => (status = Some("Updated") <=> DidOk("replace"))
    /\ status = Some("Updated") => Done /\ DidOk("replace")

C1_Witness ==
    /\ Done
    /\ status = Some("Updated")
    /\ exe = [file |-> "extracted", version |-> release[1].version]

\* C2: in apply mode, once the install guard has returned true the run has
\* ended with ExitCode::FAILURE and has made no release-host request, created
\* no workspace, prompted for nothing, extracted and replaced nothing.
C2_RefusalBeforeAnyEffect ==
    (~command.check /\ Refused) =>
        /\ Done
        /\ result = Ok("FAILURE")
        /\ \A i \in 1..Len(log) : log[i].step \in {"build", "guard"}
        /\ workspace = NoWorkspace
        /\ release = None
        /\ line = None
        /\ exe = PriorExe

C2_Witness == ~command.check /\ Refused /\ Done /\ result = Ok("FAILURE")

\* C3 as stated: the guard is consulted only after version resolution has
\* succeeded.
C3_GuardAfterResolution == After("guard", "resolve")

\* the decision of perform_update's match, stated on the resolved release
RequiresUpdate ==
    IF command.tag = None
    THEN Parses(release[1].version) /\ VersionGreater(release[1].version, VERSION)
    ELSE release[1].version # VERSION

\* C3 amended: in apply mode the guard is consulted first and version
\* resolution starts only after the guard has returned false; a run whose
\* resolved release requires no update ends UpToDate with ExitCode::SUCCESS,
\* and it does so only on an install the guard does not flag.
C3_GuardBeforeResolution ==
    ~command.check =>
        /\ After("resolve", "guard")
        /\ Refused => ~Did("resolve")
        /\ (Done /\ DidOk("compare") /\ ~RequiresUpdate) =>
               /\ status = Some("UpToDate")
               /\ result = Ok("SUCCESS")
               /\ log = <<Ev("build", TRUE), Ev("guard", TRUE), Ev("resolve", TRUE),
                          Ev("compare", TRUE)>>
        /\ status = Some("UpToDate") => DidOk("guard") /\ DidOk("compare") /\ ~RequiresUpdate

C3_Witness ==
    /\ ~command.check
    /\ Done
    /\ status = Some("UpToDate")
    /\ result = Ok("SUCCESS")
    /\ DidOk("guard")

\* the steps of apply mode, in the order of C4
ApplySteps == <<"guard", "select", "confirm", "tempdir", "download", "extract", "replace">>

Rank(step) == CHOOSE r \in 1..Len(ApplySteps) : ApplySteps[r] = step

IsApplyStep(step) == \E r \in 1..Len(ApplySteps) : ApplySteps[r] = step

\* C4: in apply mode guard check, asset selection, confirmation, download
\* (with workspace creation), extraction and replacement occur in that
\* order, each at most once, and each only after every earlier one has
\* succeeded in the run (confirmation counting as succeeded when no_confirm
\* skips it).
C4_StrictOrder ==
    ~command.check =>
        /\ \A i, j \in 1..Len(log) :
               (i < j /\ IsApplyStep(log[i].step) /\ IsApplyStep(log[j].step)) =>
                   Rank(log[i].step) < Rank(log[j].step)
        /\ \A i \in 1..Len(log) :
               IsApplyStep(log[i].step) =>
                   \A r \in 1..(Rank(log[i].step) - 1) :
                       \/ ApplySteps[r] = "confirm" /\ command.no_confirm
                       \/ \E j \in 1..(i - 1) : log[j] = Ev(ApplySteps[r], TRUE)
        /\ command.no_confirm => ~Did("confirm")

C4_Witness == ~command.check /\ ~command.no_confirm /\ Done /\ DidOk("replace")

\* the resolved release's version, and whether it is strictly greater than
\* the running version under semantic-version ordering
Resolved == release[1].version
ResolvedGreater == Parses(Resolved) /\ VersionGreater(Resolved, VERSION)

\* C5 as stated (for resolved versions that are semantic versions): in
\* check mode, for the latest and for a pinned target alike, the exit code is
\* 1 exactly when the resolved version is strictly greater than the running
\* one, and 0 otherwise.
C5_CheckExitIffGreater ==
    (command.check /\ Done /\ DidOk("resolve") /\ Parses(Resolved)) =>
        /\ result = Ok("FAILURE") <=> ResolvedGreater
        /\ result = Ok("SUCCESS") <=> ~ResolvedGreater

\* C5 amended: in check mode with the latest target the exit code is 1
\* exactly when the resolved version is strictly greater than the running
\* one and 0 otherwise, a version that is no semantic version being an
\* error; with a pinned --tag the exit code is 0 exactly when the resolved
\* version string equals the running version and 1 for every other version,
\* an older one included.
C5_CheckExitLatestGreaterTagDiffers ==
    (command.check /\ Done /\ DidOk("resolve")) =>
        IF command.tag = None
        THEN /\ Parses(Resolved) =>
                   /\ result = Ok("FAILURE") <=> ResolvedGreater
                   /\ result = Ok("SUCCESS") <=> ~ResolvedGreater
             /\ ~Parses(Resolved) => result = Err("SemVer")
        ELSE /\ result = Ok("SUCCESS") <=> Resolved = VERSION
             /\ result = Ok("FAILURE") <=> Resolved # VERSION

\* a pinned check of a release older than the running version exits 1
C5_Witness ==
    /\ command.check
    /\ command.tag # None
    /\ Done
    /\ DidOk("resolve")
    /\ Parses(Resolved) /\ VersionGreater(VERSION, Resolved)
    /\ result = Ok("FAILURE")

\* C6 as stated (for resolved versions that are semantic versions): in
\* apply mode, for the latest and for a pinned target alike, the run gets
\* past version resolution only with a resolved version strictly greater
\* than the running one; with an equal or older one it ends UpToDate and the
\* executable is never replaced.
C6_ApplyOnlyIfGreater ==
    (~command.check /\ DidOk("compare") /\ Parses(Resolved)) =>
        /\ (pc # "done" \/ Did("select")) => ResolvedGreater
        /\ (Done /\ ~ResolvedGreater) => status = Some("UpToDate") /\ exe = PriorExe

\* C6 amended: in apply mode with the latest target the run gets past
\* version resolution only with a resolved version strictly greater than the
\* running one, and an equal or older one ends UpToDate with the executable
\* never replaced; with a pinned --tag the run gets past version resolution
\* exactly when the resolved version string differs from the running version
\* (an older release included, which can then replace the executable), and
\* ends UpToDate only when it equals it.
C6_ApplyLatestGreaterTagDiffers ==
    (~command.check /\ DidOk("compare")) =>
        IF command.tag = None
        THEN /\ (pc # "done" \/ Did("select")) => ResolvedGreater
             /\ (Done /\ Parses(Resolved) /\ ~ResolvedGreater) =>
                    status = Some("UpToDate") /\ exe = PriorExe /\ ~Did("select")
        ELSE /\ (pc # "done" \/ Did("select")) <=> Resolved # VERSION
             /\ (Done /\ Resolved = VERSION) =>
                    status = Some("UpToDate") /\ exe = PriorExe /\ ~Did("select")
             /\ status = Some("UpToDate") => Resolved = VERSION

\* a pinned apply run has replaced the executable by an older release
C6_Witness ==
    /\ ~command.check
    /\ command.tag # None
    /\ Done
    /\ status = Some("Updated")
    /\ Parses(exe.version) /\ VersionGreater(VERSION, exe.version)

\* C7: a check-mode run never evaluates the guard, selects an asset, prompts,
\* creates a workspace, downloads, extracts or replaces; whatever version
\* resolution yields, workspace and executable are as before the run.
C7_CheckModeFrame ==
    command.check =>
        /\ \A i \in 1..Len(log) : log[i].step \in {"build", "resolve", "compare", "warn"}
        /\ pc \in {"start", "built", "done"}
        /\ workspace = NoWorkspace
        /\ exe = PriorExe
        /\ target_asset = None
        /\ line = None
        /\ status = None

C7_Witness == command.check /\ Done /\ DidOk("resolve") /\ result = Ok("FAILURE")

\* the run ended because the user declined at the prompt
Declined ==
    /\ Len(log) >= 2
    /\ log[Len(log) - 1] = Ev("stdin", TRUE)
    /\ log[Len(log)] = Ev("confirm", FALSE)

\* C8 as stated: a run the user declines ends with ExitCode::FAILURE, the
\* exit status of a guard refusal, not with an error.
C8_DeclineExitsLikeRefusal == Declined => result = Ok("FAILURE")

\* C8 amended: a run the user declines ends with the error "User cancelled
\* the update", returned by execute as an Err like every other component
\* failure, while a guard refusal ends with Ok(ExitCode::FAILURE); the exit
\* status of the error is chosen by the caller of execute.
C8_DeclineIsAnError ==
    /\ Declined => Done /\ result = ErrCancelled /\ status = None /\ exe = PriorExe
    /\ result = ErrCancelled => Declined
    /\ Refused => result = Ok("FAILURE")

C8_Witness == Declined /\ Done /\ result = ErrCancelled

\* the answer, trimmed and lowercased, is empty or "y"
AnswerIsYes(answer) ==
    LET t == ToLowercase(Trim(answer))
    IN  t = <<>> \/ t = <<"y">>

\* C9 as stated: confirm_prompt succeeds exactly when the line read, trimmed
\* and lowercased, is empty or "y".
C9_SucceedsIffYes ==
    [][pc = "answer" => (pc' = "workspace" <=> AnswerIsYes(line[1]))]_vars

\* C9 amended: confirm_prompt fails with the user-cancelled error exactly
\* when the line read, trimmed and lowercased, is neither empty nor "y"; it
\* succeeds only for an empty or "y" line, and for such a line it succeeds
\* unless writing the closing newline to standard output fails (an I/O
\* error); after the user-cancelled error no workspace is created and no
\* download, extraction or replacement occurs.
C9_CancelledIffNotYes ==
    /\ [][pc = "answer" =>
            /\ result' = ErrCancelled <=> ~AnswerIsYes(line[1])
            /\ pc' = "workspace" => AnswerIsYes(line[1])
            /\ AnswerIsYes(line[1]) => (pc' = "workspace" \/ result' = Err("Io"))]_vars
    /\ [](result = ErrCancelled =>
            /\ Done
            /\ workspace = NoWorkspace
            /\ exe = PriorExe
            /\ ~Did("tempdir") /\ ~Did("download") /\ ~Did("extract") /\ ~Did("replace"))

\* confirm_prompt has returned Ok(()) for the line it read
C9_Witness ==
    /\ pc = "workspace"
    /\ line = None
    /\ DidOk("stdin") /\ DidOk("newline") /\ DidOk("confirm")

\* C10: with no_confirm an apply run writes no prompt and reads no input,
\* goes from asset selection straight to workspace creation and never ends
\* cancelled; without no_confirm the workspace creation and the download
\* start only after the confirmation has succeeded.
C10_NoConfirmSkipsPrompt ==
    /\ command.no_confirm =>
           /\ ~Did("prompt") /\ ~Did("stdin") /\ ~Did("newline") /\ ~Did("confirm")
           /\ pc \notin {"confirm", "answer"}
           /\ line = None
           /\ result # ErrCancelled
           /\ \A i \in 1..(Len(log) - 1) :
                  log[i].step = "select" => log[i + 1].step = "tempdir"
    /\ ~command.no_confirm =>
           /\ After("tempdir", "confirm")
           /\ After("headers", "confirm")
           /\ After("download", "confirm")
           /\ pc \in {"workspace", "download", "extract", "replace"} => DidOk("confirm")

C10_Witness == command.no_confirm /\ DidOk("select") /\ DidOk("download")

\* the name of asset i of the resolved release passes the platform filter
PlatformAsset(i) ==
    /\ Contains(release[1].assets[i], TARGET)
    /\ EndsWith(release[1].assets[i], ARCHIVE_EXTENSION)

\* C11: the selected asset is the one of lowest index whose name contains
\* the target triple and ends with the archive extension; when no asset
\* passes, selection fails with the no-asset error and the run ends before
\* any prompt, workspace creation or download.
C11_FirstMatchingAsset ==
    /\ DidOk("select") =>
           /\ target_asset # None
           /\ target_asset[1] \in 1..Len(release[1].assets)
           /\ PlatformAsset(target_asset[1])
           /\ \A j \in 1..(target_asset[1] - 1) : ~PlatformAsset(j)
    /\ Did("select") =>
           (Failed("select") <=> \A i \in 1..Len(release[1].assets) : ~PlatformAsset(i))
    /\ Failed("select") =>
           /\ Done
           /\ result = Err("Release")
           /\ target_asset = None
           /\ workspace = NoWorkspace
           /\ ~Did("prompt") /\ ~Did("stdin") /\ ~Did("tempdir") /\ ~Did("download")

\* two assets pass the filter and the first one is selected
C11_Witness ==
    /\ DidOk("select")
    /\ Len(release[1].assets) = 2
    /\ PlatformAsset(1) /\ PlatformAsset(2)
    /\ target_asset = Some(1)

\* the number of log entries of a step
Count(step) == Cardinality({i \in 1..Len(log) : log[i].step = step})

\* C12: the workspace is created at most once per run, only in apply mode
\* and only after the confirmation has succeeded or been skipped, directly
\* before the download; it exists in no terminal state: it is removed after
\* a successful replacement and after a failure of file creation, header
\* construction, download, extraction or replacement.
C12_WorkspaceScoped ==
    /\ Count("tempdir") <= 1
    /\ Did("tempdir") =>
           /\ ~command.check
           /\ command.no_confirm \/ DidOk("confirm")
           /\ DidOk("select")
    /\ \A i \in 1..Len(log) :
           log[i].step = "tempdir" =>
               /\ log[i - 1] = (IF command.no_confirm THEN Ev("select", TRUE)
                                ELSE Ev("confirm", TRUE))
               /\ \A j \in (i + 1)..Len(log) :
                      log[j].step = "download" => j = i + 3
    /\ workspace.dir = "exists" <=> (DidOk("tempdir") /\ DidOk("create") /\ ~Done)
    /\ Done => workspace.dir # "exists"
    /\ (Done /\ DidOk("tempdir")) => workspace = RemovedWorkspace
    /\ ~DidOk("tempdir") => workspace = NoWorkspace

\* a run whose extraction failed has ended with the workspace removed
C12_Witness ==
    /\ Done
    /\ Failed("extract")
    /\ workspace = RemovedWorkspace

\* C13: a failure of any step ends the run at once in an error: no step
\* follows the failed one, and no step is executed twice in one run.
C13_FailureEndsRun ==
    /\ \A i \in 1..Len(log) :
           ~log[i].ok =>
               /\ Done
               /\ \A j \in (i + 1)..Len(log) : log[j] = Ev("confirm", FALSE)
               /\ log[i].step # "guard" => result # None /\ result[1][1] = "Err"
    /\ \A i, j \in 1..Len(log) : i # j => log[i].step # log[j].step
    /\ (result # None /\ result[1][1] = "Err") => \E i \in 1..Len(log) : ~log[i].ok

\* a run whose download failed has ended in the network error
C13_Witness ==
    /\ Done
    /\ Failed("download")
    /\ result = Err("Network")
    /\ ~Did("extract") /\ ~Did("replace")

\* the log without the warnings
IsStep(entry) == entry.step # "warn"
LowLog == SelectSeq(log, IsStep)

\* the steps of a complete apply run, in order
FullSteps ==
    <<"build", "guard", "resolve", "compare", "select">>
        \o (IF command.no_confirm THEN <<>> ELSE <<"prompt", "stdin", "newline", "confirm">>)
        \o <<"tempdir", "create", "headers", "download", "extract", "replace">>

\* the names of the steps that have succeeded, in order
IsOk(entry) == entry.ok
OkSteps == [i \in 1..Len(SelectSeq(LowLog, IsOk)) |-> SelectSeq(LowLog, IsOk)[i].step]

\* compatibility in the words of the design: same major version from
\* major 1 on, same major and minor version while the major version is 0
Compatible(current, other) ==
    /\ other[1] = current[1]
    /\ current[1] = 0 => other[2] = current[2]

\* the run is past version resolution
PastResolution == DidOk("compare") /\ (pc # "done" \/ Did("select"))

\* C14: compatibility never changes control flow.  Every greater release
\* that the latest arm resolves, compatible or not, takes the run to asset
\* selection with the same steps logged; from there on the steps executed
\* are the fixed sequence of apply mode, a warning is neither a step nor
\* added later, and the run ends Updated exactly when the replacement
\* succeeded, warned or not.
C14_CompatibilityIsAdvisory ==
    /\ [][(/\ pc = "perform_update"
            /\ command.tag = None
            /\ release' # None
            /\ Parses(release'[1].version)
            /\ VersionGreater(release'[1].version, VERSION)) =>
               /\ pc' = "select"
               /\ result' = None /\ status' = None
               /\ LowLog' = LowLog \o <<Ev("resolve", TRUE), Ev("compare", TRUE)>>]_vars
    /\ [][pc \notin {"start", "built", "perform_update"} =>
               (Count("warn")' = Count("warn"))]_vars
    /\ [](~command.check =>
               /\ Count("warn") <= 1
               /\ OkSteps = SubSeq(FullSteps, 1, Len(OkSteps))
               /\ Done => (status = Some("Updated") <=> DidOk("replace")))

\* a greater but incompatible release has been installed, with a warning
C14_Witness ==
    /\ ~command.check
    /\ command.tag = None
    /\ Done
    /\ status = Some("Updated")
    /\ ~Compatible(VERSION, exe.version)
    /\ Did("warn")

\* a warning is logged before any asset selection
WarnedBeforeSelect ==
    \E i \in 1..Len(log) :
        /\ log[i].step = "warn"
        /\ \A j \in 1..Len(log) : log[j].step = "select" => i < j

\* C15 as stated: an apply run that is past version resolution with a
\* greater but incompatible release has warned before asset selection, with
\* the latest and with a pinned target alike.
C15_WarnsWhenIncompatible ==
    (~command.check /\ PastResolution /\ ResolvedGreater /\ ~Compatible(VERSION, Resolved)) =>
        WarnedBeforeSelect

\* C15 amended: an apply run with the latest target that is past version
\* resolution with a greater but incompatible release has warned before
\* asset selection; an apply run with a pinned --tag makes no compatibility
\* test and never warns.
C15_WarnsOnlyForLatest ==
    ~command.check =>
        /\ (/\ command.tag = None
            /\ PastResolution
            /\ ResolvedGreater
            /\ ~Compatible(VERSION, Resolved)) => WarnedBeforeSelect
        /\ command.tag # None => ~Did("warn")

\* a latest run has warned and gone on to asset selection
C15_Witness ==
    /\ ~command.check
    /\ command.tag = None
    /\ DidOk("select")
    /\ ResolvedGreater /\ ~Compatible(VERSION, Resolved)
    /\ WarnedBeforeSelect

\* the resolved release requires no update: what both modes test
NoUpdate ==
    IF command.tag = None
    THEN Parses(Resolved) /\ ~VersionGreater(Resolved, VERSION)
    ELSE Resolved = VERSION

\* C19: check mode and apply mode decide alike.  For the same target and the
\* same resolved release, check mode exits 1 exactly under the condition
\* under which an apply run, on an install the guard does not flag, gets
\* past version resolution to asset selection, and check mode exits 0
\* exactly under the condition under which that apply run ends UpToDate.
C19_CheckAgreesWithApply ==
    DidOk("resolve") =>
        IF command.check
        THEN Done =>
                 /\ result = Ok("FAILURE") <=> RequiresUpdate
                 /\ result = Ok("SUCCESS") <=> NoUpdate
        ELSE /\ DidOk("guard")
             /\ (pc # "done" \/ Did("select")) <=> RequiresUpdate
             /\ status = Some("UpToDate") <=> NoUpdate

\* a check of the latest release has exited 1
C19_Witness ==
    /\ command.check
    /\ command.tag = None
    /\ Done
    /\ DidOk("resolve")
    /\ RequiresUpdate
    /\ result = Ok("FAILURE")



\* ---------------------------------------------------------------- C16
\* in the path as written, a component "Cellar" with "mago" or "mago@..."
\* as the very next component
CellarThenMago(path) ==
    \E i \in 2..Len(path) :
        /\ path[i - 1] = Comp("Cellar")
        /\ \/ path[i] = Comp("mago")
           \/ StartsWith(path[i], <<"mago", "@">>)

\* C16: with no roots, detect_homebrew_install answers true exactly when
\* some candidate path has a component "Cellar" immediately followed by a
\* component "mago" or "mago@..."; a path with another component between
\* the two, a ".." included, is not refused.
C16_CellarImmediatelyFollowed ==
    (detected # None /\ test_roots = <<>>) =>
        (detected[1] <=> \E k \in 1..Len(test_paths) : CellarThenMago(test_paths[k]))

\* ---------------------------------------------------------------- C17
NoMarker(path) == \A i \in 1..Len(path) : path[i] # Comp("Cellar")

\* root is a prefix of path, component by component
ComponentPrefix(root, path) ==
    /\ Len(root) <= Len(path)
    /\ \A i \in 1..Len(root) : path[i] = root[i]

NestedUnderRoot ==
    \E k \in 1..Len(test_paths) : \E j \in 1..Len(test_roots) :
        test_roots[j] # <<>> /\ ComponentPrefix(test_roots[j], test_paths[k])

\* C17: when no candidate path contains the Cellar marker, the answer is
\* true exactly when some candidate has a non-empty root as a
\* whole-component prefix: empty roots alone never refuse, and
\* /opt/homebrew-x/bin/mago is not under the root /opt/homebrew.
C17_RootPrefixRefuses ==
    (detected # None /\ \A k \in 1..Len(test_paths) : NoMarker(test_paths[k])) =>
        /\ detected[1] <=> NestedUnderRoot
        /\ (\A j \in 1..Len(test_roots) : test_roots[j] = <<>>) => ~detected[1]
        /\ (/\ \A k \in 1..Len(test_paths) : test_paths[k] = SiblingExe
            /\ \A j \in 1..Len(test_roots) : test_roots[j] \in {<<>>, HomebrewRoot})
               => ~detected[1]

C17_Witness ==
    /\ detected = Some(TRUE)
    /\ Len(test_paths) = 2
    /\ test_paths[1] = SiblingExe
    /\ test_paths[2] = LinkExe
    /\ test_roots = <<<<>>, HomebrewRoot>>

\* ---------------------------------------------------------------- C18
\* simultaneous substitution: each placeholder of the template becomes its
\* value, and the text of a value is never looked at again
RECURSIVE SubstituteAll(_, _, _, _)
SubstituteAll(template, bin, version, target) ==
    IF template = <<>> THEN <<>>
    ELSE LET rest == SubstituteAll(Tail(template), bin, version, target)
         IN  CASE Head(template) = "{{ bin }}" -> bin \o rest
               [] Head(template) = "{{ version }}" -> version \o rest
               [] Head(template) = "{{ target }}" -> target \o rest
               [] OTHER -> <<Head(template)>> \o rest

\* C18: the path of the binary inside the archive is the template with its
\* three placeholders substituted simultaneously and independently: a value
\* whose text is the literal token of another placeholder stays as it is.
C18_SimultaneousSubstitution ==
    binary_path # None =>
        binary_path[1] =
            SubstituteAll(bin_path_in_archive, BIN, VersionText(Resolved), TARGET)

====
